---- MODULE Spec2Model ----
(***************************************************************************)
(* Interaction state machine of the Dutch voice companion HomeScreen.      *)
(*                                                                         *)
(* Two screens implement the same flow:                                    *)
(*   screen "full"  : src/unnamed/part_000 (roles, reset, feedback)        *)
(*   screen "basic" : src/DutchLearningApp/app/(tabs)/index.tsx            *)
(* A behaviour fixes one screen and one platform (web / native) in Init.   *)
(*                                                                         *)
(* React state is modelled as committed at the end of the synchronous part *)
(* of a handler: the next gesture sees the values the handler set.  An     *)
(* async handler is a task; every await is a separate step of the task.    *)
(* A task keeps the values of `context` and `liveFeedback` of the render   *)
(* in which its tap was made (closure capture).                            *)
(***************************************************************************)
EXTENDS Integers, Sequences, FiniteSets, TLC

\* ---------------------------------------------------------------- bounds
MaxTasks == 4        \* taps that start a startRecording/stopRecording task
MaxResets == 1       \* PUT /reset_context requests in flight at once

\* ------------------------------------------------------------ value sets
Null == "null"
NoRecording == 0      \* recordingRef.current = null
Screens == {"full", "basic"}
Platforms == {"web", "native"}
Contexts == {"waiter", "doctor"}   \* pills pressed, of waiter/doctor/grocery
UserTexts == {"u1", "u2"}
Replies == {"r1"}
Feedbacks == {Null, "f1"}          \* data.feedback: missing or a text
Audios == {Null, "b64"}            \* data.audio: missing or base64 bytes
HttpOk == 200
HttpServerError == 500
HttpNoContent == 204
UploadCodes == {HttpOk, HttpServerError}
ResetCodes == {HttpNoContent, HttpServerError}
TaskIds == 1..MaxTasks

VARIABLES
    screen,                \* which of the two HomeScreen implementations
    platform,              \* Platform.OS
    perm,                  \* microphone permission request made at mount
    context,               \* useState('waiter')
    liveFeedback,          \* useState(true)
    messages,              \* useState([])
    isRecording,           \* useState(false)
    isLoading,             \* useState(false)
    recordingRef,          \* useRef(null): NoRecording or a recording id
    tasks,                 \* async startRecording / stopRecording calls
    open,                  \* recordings created and not yet unloaded
    resets,                \* resetHistory calls awaiting their fetch
    plays,                 \* playAudio calls in flight
    ev                     \* the handler step taken last (history)

vars == <<screen, platform, perm, context, liveFeedback, messages,
          isRecording, isLoading, recordingRef, tasks, open, resets, plays,
          ev>>

\* the React state and refs of the component (everything but bookkeeping)
uiState == <<context, liveFeedback, messages, isRecording, isLoading,
             recordingRef>>

\* ------------------------------------------------------------- helpers
\* JavaScript truthiness of a string-or-null value
Truthy(v) == v \notin {Null, ""}

NoTask == [pc |-> "none", ctx |-> Null, lf |-> FALSE, rec |-> 0,
           param |-> Null]

NoData == [status |-> "none", user_text |-> Null, reply |-> Null,
           feedback |-> Null, audio |-> Null]

\* what the last step was: the handler or settled call (op; "other" for a
\* step that raises no Alert and settles no request), the outcome of the
\* request it settled (net, code, parsed, and of the body: status,
\* feedback), the Alert it raised, whether it threw, and the index it was
\* called with
Event(op) == [op |-> op, net |-> "na", code |-> 0, parsed |-> FALSE,
              status |-> "none", feedback |-> Null, alert |-> "none",
              threw |-> FALSE, index |-> 0]

PcTasks(p) == {t \in TaskIds : tasks[t].pc = p}

Spawned == {t \in TaskIds : tasks[t].pc # "none"}

NextTask == Cardinality(Spawned) + 1

Done == [pc |-> "done", ctx |-> Null, lf |-> FALSE, rec |-> 0,
         param |-> Null]

\* recordings the device holds: created (or being created) and not unloaded
Sessions == open \cup PcTasks("createAsync")

\* POST /chat-audio requests in flight
Uploads == PcTasks("upload")

\* --------------------------------------------------------------- Init
Init ==
    /\ screen \in Screens
    /\ platform \in Platforms
    /\ perm = IF platform = "web" THEN "na" ELSE "pending"
    /\ context = "waiter"
    /\ liveFeedback = TRUE
    /\ messages = <<>>
    /\ isRecording = FALSE
    /\ isLoading = FALSE
    /\ recordingRef = NoRecording
    /\ tasks = [t \in TaskIds |-> NoTask]
    /\ open = {}
    /\ resets = 0
    /\ plays = 0
    /\ ev = Event("mount")

\* ------------------------------------------------- permission at mount
\* useEffect: Audio.requestPermissionsAsync() resolves with a status
PermissionResolve(status) ==
    /\ perm = "pending"
    /\ perm' = status
    /\ ev' = [Event("permission") EXCEPT
                !.alert = IF status # "granted" THEN "Permission Required"
                          ELSE "none"]
    /\ UNCHANGED <<screen, platform, uiState, tasks, open, resets, plays>>

\* ------------------------------------------------------ toggleRecording
\* startRecording up to its first await (Audio.setAudioModeAsync)
startRecording ==
    /\ NextTask <= MaxTasks
    /\ tasks' = [tasks EXCEPT ![NextTask] = [NoTask EXCEPT !.pc = "setAudioMode"]]
    /\ ev' = Event("tapStart")
    /\ UNCHANGED <<isRecording, isLoading, recordingRef>>

stopRecordingStaysLoading ==
    IF recordingRef = NoRecording
    THEN /\ isRecording' = FALSE
         /\ isLoading' = TRUE
         /\ ev' = Event("tapStopNothing")
         /\ UNCHANGED <<tasks, recordingRef>>
    ELSE /\ NextTask <= MaxTasks
         /\ isRecording' = FALSE
         /\ isLoading' = TRUE
         /\ tasks' = [tasks EXCEPT ![NextTask] =
                        [pc |-> "stopAndUnload", ctx |-> context,
                         lf |-> liveFeedback, rec |-> recordingRef,
                         param |-> Null]]
         /\ ev' = Event("tapStop")
         /\ UNCHANGED recordingRef

\* stopRecording up to its first await (recording.stopAndUnloadAsync), or
\* to its return when no recording handle is held
stopRecording ==
    IF recordingRef = NoRecording
    THEN /\ isRecording' = FALSE
         /\ isLoading' = FALSE
         /\ ev' = Event("tapStopNothing")
         /\ UNCHANGED <<tasks, recordingRef>>
    ELSE /\ NextTask <= MaxTasks
         /\ isRecording' = FALSE
         /\ isLoading' = TRUE
         /\ tasks' = [tasks EXCEPT ![NextTask] =
                        [pc |-> "stopAndUnload", ctx |-> context,
                         lf |-> liveFeedback, rec |-> recordingRef,
                         param |-> Null]]
         /\ ev' = Event("tapStop")
         /\ UNCHANGED recordingRef

toggleRecordingNoGuard ==
    /\ IF isRecording THEN stopRecording ELSE startRecording
    /\ UNCHANGED <<screen, platform, perm, context, liveFeedback, messages,
                   open, resets, plays>>

toggleRecording ==
    /\ IF isLoading
       THEN /\ ev' = Event("tapIgnored")
            /\ UNCHANGED <<isRecording, isLoading, recordingRef, tasks>>
       ELSE IF isRecording THEN stopRecording ELSE startRecording
    /\ UNCHANGED <<screen, platform, perm, context, liveFeedback, messages, open,
                   resets, plays>>

\* Audio.setAudioModeAsync settles; on success Recording.createAsync is issued
SetAudioModeDone(t, ok) ==
    /\ tasks[t].pc = "setAudioMode"
    /\ IF ok
       THEN /\ tasks' = [tasks EXCEPT ![t].pc = "createAsync"]
            /\ ev' = Event("other")
       ELSE /\ tasks' = [tasks EXCEPT ![t] = Done]
            /\ ev' = [Event("startFailed") EXCEPT !.alert = "Error"]
    /\ UNCHANGED <<screen, platform, perm, uiState, open, resets, plays>>

CreateAsyncDoneEagerFlag(t, ok) ==
    /\ tasks[t].pc = "createAsync"
    /\ tasks' = [tasks EXCEPT ![t] = Done]
    /\ isRecording' = TRUE
    /\ IF ok
       THEN /\ recordingRef' = t
            /\ open' = open \cup {t}
            /\ ev' = Event("other")
       ELSE /\ ev' = [Event("startFailed") EXCEPT !.alert = "Error"]
            /\ UNCHANGED <<recordingRef, open>>
    /\ UNCHANGED <<screen, platform, perm, context, liveFeedback, messages, isLoading,
                   resets, plays>>

\* Audio.Recording.createAsync settles
CreateAsyncDone(t, ok) ==
    /\ tasks[t].pc = "createAsync"
    /\ tasks' = [tasks EXCEPT ![t] = Done]
    /\ IF ok
       THEN /\ recordingRef' = t
            /\ isRecording' = TRUE
            /\ open' = open \cup {t}
            /\ ev' = Event("other")
       ELSE /\ ev' = [Event("startFailed") EXCEPT !.alert = "Error"]
            /\ UNCHANGED <<recordingRef, isRecording, open>>
    /\ UNCHANGED <<screen, platform, perm, context, liveFeedback, messages, isLoading,
                   resets, plays>>

\* the liveFeedback parameter of the POST /chat-audio request of task t:
\* liveFeedback.toString() of the render in which the tap was made
LiveFeedbackParam(t) == IF tasks[t].lf THEN "true" ELSE "false"

\* recording.stopAndUnloadAsync settles; getURI; uploadAudio up to its
\* first await (fetch(uri) on web, FileSystem.uploadAsync otherwise)
StopAndUnloadDone(t, ok, uri, released) ==
    /\ tasks[t].pc = "stopAndUnload"
    /\ IF ok
       THEN /\ open' = open \ {tasks[t].rec}
            /\ recordingRef' = NoRecording
            /\ IF Truthy(uri)
               THEN /\ tasks' = IF platform = "web"
                                THEN [tasks EXCEPT ![t].pc = "fetchBlob"]
                                ELSE [tasks EXCEPT ![t].pc = "upload",
                                        ![t].param = LiveFeedbackParam(t)]
                    /\ ev' = Event("other")
                    /\ UNCHANGED isLoading
               ELSE /\ tasks' = [tasks EXCEPT ![t] = Done]
                    /\ isLoading' = FALSE
                    /\ ev' = Event("other")
       ELSE /\ open' = IF released THEN open \ {tasks[t].rec} ELSE open
            /\ tasks' = [tasks EXCEPT ![t] = Done]
            /\ isLoading' = FALSE
            /\ ev' = Event("other")
            /\ UNCHANGED recordingRef
    /\ UNCHANGED <<screen, platform, perm, context, liveFeedback, messages, isRecording,
                   resets, plays>>

\* ------------------------------------------------------------ upload
\* the two turns handleSuccess builds from a "success" response
NewMessagesBasic(data) ==
    << [sender |-> "user", text |-> data.user_text],
       [sender |-> "ai", text |-> data.reply] >>

NewMessagesUserOnly(data, lf) ==
    IF screen = "basic" THEN << [sender |-> "user", text |-> data.user_text] >>
    ELSE << [sender |-> "user", text |-> data.user_text,
             feedback |-> IF lf /\ Truthy(data.feedback)
                          THEN data.feedback ELSE Null,
             showFeedback |-> FALSE] >>

NewMessages(data, lf) ==
    IF screen = "basic" THEN NewMessagesBasic(data)
    ELSE << [sender |-> "user", text |-> data.user_text,
             feedback |-> IF lf /\ Truthy(data.feedback)
                          THEN data.feedback ELSE Null,
             showFeedback |-> FALSE],
            [sender |-> "ai", text |-> data.reply] >>

handleSuccessStaleLog(data, lf) ==
    IF data.status = "success"
    THEN /\ messages' = NewMessages(data, lf)
         /\ plays' = IF Truthy(data.audio) THEN plays + 1 ELSE plays
    ELSE UNCHANGED <<messages, plays>>

\* handleSuccess(data), called with the liveFeedback of the caller's render
handleSuccess(data, lf) ==
    IF data.status = "success"
    THEN /\ messages' = messages \o NewMessages(data, lf)
         /\ plays' = IF Truthy(data.audio) THEN plays + 1 ELSE plays
    ELSE UNCHANGED <<messages, plays>>

\* does uploadAudio reach handleSuccess for this outcome of the request?
WebHandles(net, code, parsed) == net = "ok" /\ parsed

NativeHandles(net, code, parsed) == net = "ok" /\ code = HttpOk /\ parsed

Handles(net, code, parsed) ==
    IF platform = "web" THEN WebHandles(net, code, parsed)
    ELSE NativeHandles(net, code, parsed)

\* the Alert raised by uploadAudio / handleSuccess for this outcome
UploadAlert(net, code, parsed, data) ==
    IF ~Handles(net, code, parsed) THEN "Connection Error"
    ELSE IF data.status = "success" THEN "none" ELSE "AI Error"

SuccessData ==
    [status : {"success"}, user_text : UserTexts, reply : Replies,
     feedback : Feedbacks, audio : Audios]

ErrorData == [NoData EXCEPT !.status = "error"]

\* web only: fetch(uri) and response.blob() settle; the POST is issued
FetchBlobDone(t, ok) ==
    /\ tasks[t].pc = "fetchBlob"
    /\ IF ok
       THEN /\ tasks' = [tasks EXCEPT ![t].pc = "upload",
                              ![t].param = LiveFeedbackParam(t)]
            /\ ev' = Event("other")
            /\ UNCHANGED isLoading
       ELSE /\ tasks' = [tasks EXCEPT ![t] = Done]
            /\ isLoading' = FALSE
            /\ ev' = [Event("uploadDone") EXCEPT !.net = "fail",
                        !.alert = "Connection Error"]
    /\ UNCHANGED <<screen, platform, perm, context, liveFeedback, messages, isRecording,
                   recordingRef, open, resets, plays>>

UploadDoneLiveGate(t, net, code, parsed, data) ==
    /\ tasks[t].pc = "upload"
    /\ tasks' = [tasks EXCEPT ![t] = Done]
    /\ IF Handles(net, code, parsed)
       THEN handleSuccess(data, liveFeedback)
       ELSE UNCHANGED <<messages, plays>>
    /\ isLoading' = FALSE
    /\ ev' = [Event("uploadDone") EXCEPT !.net = net,
                !.code = code, !.parsed = parsed, !.status = data.status,
                !.feedback = data.feedback,
                !.alert = UploadAlert(net, code, parsed, data)]
    /\ UNCHANGED <<screen, platform, perm, context, liveFeedback, isRecording, recordingRef, open, resets>>

\* the POST /chat-audio request settles: the rest of uploadAudio, with
\* handleSuccess, catch and finally
UploadDone(t, net, code, parsed, data) ==
    /\ tasks[t].pc = "upload"
    /\ tasks' = [tasks EXCEPT ![t] = Done]
    /\ IF Handles(net, code, parsed)
       THEN handleSuccess(data, tasks[t].lf)
       ELSE UNCHANGED <<messages, plays>>
    /\ isLoading' = FALSE
    /\ ev' = [Event("uploadDone") EXCEPT !.net = net,
                !.code = code, !.parsed = parsed, !.status = data.status,
                !.feedback = data.feedback,
                !.alert = UploadAlert(net, code, parsed, data)]
    /\ UNCHANGED <<screen, platform, perm, context, liveFeedback, isRecording, recordingRef, open, resets>>

PlayDoneAlertsFailure(ok) ==
    /\ plays > 0
    /\ plays' = plays - 1
    /\ ev' = IF ok THEN Event("other")
             ELSE [Event("playFailed") EXCEPT !.alert = "Error"]
    /\ UNCHANGED <<screen, platform, perm, uiState, tasks, open, resets>>

\* Audio.Sound.createAsync / playAsync settle; the catch of playAudio only
\* logs a failure
PlayDone(ok) ==
    /\ plays > 0
    /\ plays' = plays - 1
    /\ ev' = IF ok THEN Event("other") ELSE Event("playFailed")
    /\ UNCHANGED <<screen, platform, perm, uiState, tasks, open, resets>>

\* ------------------------------------------------------------ settings
\* onPress of a context pill.  The role descriptions and their visibility
\* (userAiPairDescription, displayRoles, refreshing) are presentation
\* state that no handler reads; they are left out of the model.
SelectContextBasic(c) ==
    /\ context' = c
    /\ UNCHANGED messages

SelectContextFull(c) ==
    /\ messages' = <<>>
    /\ context' = c

SelectContext(c) ==
    /\ IF screen = "basic" THEN SelectContextBasic(c) ELSE SelectContextFull(c)
    /\ ev' = Event("select")
    /\ UNCHANGED <<screen, platform, perm, liveFeedback, isRecording,
                   isLoading, recordingRef, tasks, open, resets, plays>>

\* onValueChange of the Live Corrections switch
SetLiveFeedback(v) ==
    /\ liveFeedback # v
    /\ liveFeedback' = v
    /\ ev' = Event("other")
    /\ UNCHANGED <<screen, platform, perm, context, messages, isRecording,
                   isLoading, recordingRef, tasks, open, resets, plays>>

\* ------------------------------------------------------------- reset
\* resetHistory up to its await of fetch(PUT /reset_context), called by
\* the Reset Context button or by onRefresh
ResetStart ==
    /\ screen = "full"
    /\ resets < MaxResets
    /\ resets' = resets + 1
    /\ ev' = Event("other")
    /\ UNCHANGED <<screen, platform, perm, uiState, tasks, open, plays>>

\* the rest of resetHistory once the request settles: the log is cleared
\* after the status check inside the try block, the catch only logs
resetHistoryOn204Only(net, code) ==
    IF net = "ok" /\ code = HttpNoContent
    THEN messages' = <<>>
    ELSE UNCHANGED messages

resetHistory(net, code) ==
    IF net = "ok"
    THEN messages' = <<>>
    ELSE UNCHANGED messages

ResetDone(net, code) ==
    /\ resets > 0
    /\ resets' = resets - 1
    /\ resetHistory(net, code)
    /\ ev' = [Event("resetDone") EXCEPT !.net = net, !.code = code]
    /\ UNCHANGED <<screen, platform, perm, context, liveFeedback,
                   isRecording, isLoading, recordingRef, tasks, open, plays>>

\* ------------------------------------------------------ toggleFeedback
\* updated[index] is undefined outside 0..length-1 and reading its
\* .sender raises a TypeError inside the state updater
ToggleThrows(log, index) == index < 0 \/ index >= Len(log)

ToggleUpdateShowsOnly(log, index) ==
    IF log[index + 1].sender = "user"
    THEN [log EXCEPT ![index + 1] = [@ EXCEPT !.showFeedback = TRUE]]
    ELSE log

\* the array the updater of toggleFeedback(index) returns (index from 0)
ToggleUpdate(log, index) ==
    IF log[index + 1].sender = "user"
    THEN [log EXCEPT ![index + 1] =
            [@ EXCEPT !.showFeedback = ~log[index + 1].showFeedback]]
    ELSE log

toggleFeedback(index) ==
    /\ IF ToggleThrows(messages, index)
       THEN /\ ev' = [Event("toggleFeedback") EXCEPT !.index = index,
                        !.threw = TRUE]
            /\ UNCHANGED messages
       ELSE /\ ev' = [Event("toggleFeedback") EXCEPT !.index = index]
            /\ messages' = ToggleUpdate(messages, index)
    /\ UNCHANGED <<screen, platform, perm, context, liveFeedback, isRecording, isLoading,
                   recordingRef, tasks, open, resets, plays>>

\* the "Show Correction" control is rendered under user turns with feedback
FeedbackButtons ==
    {i \in 0..(Len(messages) - 1) :
        /\ messages[i + 1].sender = "user"
        /\ "feedback" \in DOMAIN messages[i + 1]
        /\ Truthy(messages[i + 1].feedback)}

PressFeedback(index) ==
    /\ screen = "full"
    /\ index \in FeedbackButtons
    /\ toggleFeedback(index)

\* ---------------------------------------------------------------- Next
Next ==
    \/ \E status \in {"granted", "denied"} : PermissionResolve(status)
    \/ toggleRecording
    \/ \E t \in TaskIds, ok \in BOOLEAN : SetAudioModeDone(t, ok)
    \/ \E t \in TaskIds, ok \in BOOLEAN : CreateAsyncDone(t, ok)
    \/ \E t \in TaskIds, ok \in BOOLEAN, uri \in {Null, "file"},
          released \in BOOLEAN : StopAndUnloadDone(t, ok, uri, released)
    \/ \E t \in TaskIds, ok \in BOOLEAN : FetchBlobDone(t, ok)
    \/ \E t \in TaskIds, code \in UploadCodes,
          data \in SuccessData \cup {ErrorData} :
            UploadDone(t, "ok", code, TRUE, data)
    \/ \E t \in TaskIds, code \in UploadCodes :
            UploadDone(t, "ok", code, FALSE, NoData)
    \/ \E t \in TaskIds : UploadDone(t, "fail", 0, FALSE, NoData)
    \/ \E ok \in BOOLEAN : PlayDone(ok)
    \/ \E c \in Contexts : SelectContext(c)
    \/ \E v \in BOOLEAN : SetLiveFeedback(v)
    \/ ResetStart
    \/ \E code \in ResetCodes : ResetDone("ok", code)
    \/ ResetDone("fail", 0)
    \/ \E index \in 0..(2 * MaxTasks) : PressFeedback(index)

Spec == Init /\ [][Next]_vars

\* every issued device call and HTTP request eventually settles; the user
\* is under no obligation to make a gesture
UploadSettles(t) ==
    \/ \E code \in UploadCodes, data \in SuccessData \cup {ErrorData} :
            UploadDone(t, "ok", code, TRUE, data)
    \/ \E code \in UploadCodes : UploadDone(t, "ok", code, FALSE, NoData)
    \/ UploadDone(t, "fail", 0, FALSE, NoData)

Fairness ==
    /\ \A t \in TaskIds : WF_vars(\E ok \in BOOLEAN : SetAudioModeDone(t, ok))
    /\ \A t \in TaskIds : WF_vars(\E ok \in BOOLEAN : CreateAsyncDone(t, ok))
    /\ \A t \in TaskIds :
         WF_vars(\E ok \in BOOLEAN, uri \in {Null, "file"}, released \in BOOLEAN :
                    StopAndUnloadDone(t, ok, uri, released))
    /\ \A t \in TaskIds : WF_vars(\E ok \in BOOLEAN : FetchBlobDone(t, ok))
    /\ \A t \in TaskIds : WF_vars(UploadSettles(t))
    /\ WF_vars(\E ok \in BOOLEAN : PlayDone(ok))
    /\ WF_vars(ResetDone("fail", 0) \/ \E code \in ResetCodes : ResetDone("ok", code))
    /\ WF_vars(\E status \in {"granted", "denied"} : PermissionResolve(status))

FairSpec == Init /\ [][Next]_vars /\ Fairness

\* ------------------------------------------- the conversation log alone
\* toggleFeedback applied to any index, on any log the screen can hold
MaxExchanges == 2

Exchanges == {NewMessages(d, lf) : d \in SuccessData, lf \in BOOLEAN}

RECURSIVE LogsOf(_)
LogsOf(n) ==
    IF n = 0 THEN {<<>>}
    ELSE LogsOf(n - 1) \cup {l \o e : l \in LogsOf(n - 1), e \in Exchanges}

InitLog ==
    /\ screen = "full"
    /\ platform \in Platforms
    /\ perm = IF platform = "web" THEN "na" ELSE "granted"
    /\ context = "waiter"
    /\ liveFeedback = TRUE
    /\ messages \in LogsOf(MaxExchanges)
    /\ isRecording = FALSE
    /\ isLoading = FALSE
    /\ recordingRef = NoRecording
    /\ tasks = [t \in TaskIds |-> NoTask]
    /\ open = {}
    /\ resets = 0
    /\ plays = 0
    /\ ev = Event("mount")

NextLog == \E index \in (0 - 1)..(2 * MaxExchanges) : toggleFeedback(index)

SpecLog == InitLog /\ [][NextLog]_vars

\* =================================================================
\* Claims
\* =================================================================
TapOps == {"tapIgnored", "tapStart", "tapStop", "tapStopNothing"}

\* stopRecording calls that have not returned yet
Stopping == PcTasks("stopAndUnload") \cup PcTasks("fetchBlob") \cup Uploads

\* the task whose upload the step settles had captured lf as liveFeedback
SettledWith(lf) ==
    \E t \in TaskIds :
        /\ tasks[t].pc \in {"upload", "fetchBlob"}
        /\ tasks'[t].pc = "done"
        /\ tasks[t].lf = lf

\* a successful transaction: status code 200, a body that parses, and
\* status "success" in it
SuccessResponse(e) ==
    /\ e.op = "uploadDone"
    /\ e.net = "ok"
    /\ e.code = HttpOk
    /\ e.parsed
    /\ e.status = "success"

\* status "error" in a parsed 200 response, or a transport error
ErrorResponse(e) ==
    /\ e.op = "uploadDone"
    /\ \/ e.net = "fail"
       \/ e.code # HttpOk
       \/ ~e.parsed
       \/ e.status = "error"

\* C1: there are never two capture sessions open at the same time: no
\* second Recording.createAsync is issued while an earlier one is pending
\* or an earlier recording has not been stopped.
C1_OneSession == Cardinality(Sessions) <= 1

\* C2: at most one upload to /chat-audio is in flight, the controller is
\* loading for as long as a stopRecording call has not returned, and a tap
\* received while loading changes no state: it starts and stops no capture
\* and issues no request.
C2_LoadingGuard ==
    [][ /\ Cardinality(Uploads') <= 1
        /\ Cardinality(Stopping') <= 1
        /\ (Stopping' # {} => isLoading')
        /\ (isLoading /\ ev'.op \in TapOps =>
                UNCHANGED <<uiState, tasks, open, resets, plays>>) ]_vars

C2_Witness == Uploads # {} /\ isLoading /\ ev.op = "tapIgnored"

\* C3: whenever the controller is loading it eventually returns to Idle
\* (isLoading = false and isRecording = false), given that every issued
\* call settles.
C3_ReturnsToIdle == isLoading ~> (~isLoading /\ ~isRecording)

\* C4: after a context pill is pressed the conversation log has length 0,
\* whatever was selected and appended before, on each of the two screens.
C4_SelectClears == ev.op = "select" => Len(messages) = 0

\* C5: once resetHistory has completed the log is empty, whatever the
\* outcome of PUT /reset_context (204, another status, a rejected fetch).
C5_ResetClears == ev.op = "resetDone" => messages = <<>>

\* C6 as stated: after resetHistory completes on a status other than 204 the
\* log has length 0 and the controller is Idle.
C6_ResetThenIdle ==
    (ev.op = "resetDone" /\ ev.net = "ok" /\ ev.code # HttpNoContent)
        => (Len(messages) = 0 /\ ~isRecording /\ ~isLoading)

\* C6 amended: when resetHistory completes on a status other than 204 the
\* log has length 0 and isRecording and isLoading are what they were before
\* the response arrived (an Idle controller stays Idle).
C6_ResetKeepsController ==
    [][ (ev'.op = "resetDone" /\ ev'.net = "ok" /\ ev'.code # HttpNoContent)
            => (Len(messages') = 0 /\ UNCHANGED <<isRecording, isLoading>>) ]_vars

C6_Witness ==
    /\ ev.op = "resetDone" /\ ev.net = "ok" /\ ev.code = HttpServerError
    /\ Len(messages) = 0
    /\ isRecording

\* C7: toggleFeedback(index) with the index of an AI turn or an index outside
\* 0..length-1 raises no error and leaves the log unchanged.
NotUserTurn(log, index) ==
    \/ index < 0
    \/ index >= Len(log)
    \/ log[index + 1].sender = "ai"

C7_ToggleNoOp ==
    [][ (ev'.op = "toggleFeedback" /\ NotUserTurn(messages, ev'.index))
            => (~ev'.threw /\ messages' = messages) ]_vars

\* C8: an upload answered 200 with status "success" appends exactly two
\* turns to the end of the log, a user turn then an AI turn; the turns
\* already there keep their order and content.
C8_AppendsExchange ==
    [][ SuccessResponse(ev') =>
            /\ Len(messages') = Len(messages) + 2
            /\ SubSeq(messages', 1, Len(messages)) = messages
            /\ messages'[Len(messages) + 1].sender = "user"
            /\ messages'[Len(messages) + 2].sender = "ai" ]_vars

C8_Witness == SuccessResponse(ev) /\ Len(messages) = 4

\* C9: the user turn appended for a successful response carries the server's
\* feedback if and only if live feedback is enabled and the response has a
\* feedback value, and its feedback visibility is false.
CarriesFeedback(m, fb) == "feedback" \in DOMAIN m /\ m.feedback = fb /\ Truthy(fb)

FeedbackHidden(m) == "showFeedback" \notin DOMAIN m \/ m.showFeedback = FALSE

C9_FeedbackGate ==
    [][ \A lf \in BOOLEAN :
          (SuccessResponse(ev') /\ SettledWith(lf)) =>
            /\ CarriesFeedback(messages'[Len(messages') - 1], ev'.feedback)
                 <=> (lf /\ Truthy(ev'.feedback))
            /\ FeedbackHidden(messages'[Len(messages') - 1]) ]_vars

\* C10: an upload that ends with status "error" or with a transport error
\* leaves the log as it was, raises a notice and returns the controller to
\* Idle.
C10_ErrorLeavesLog ==
    [][ ErrorResponse(ev') =>
            /\ messages' = messages
            /\ ev'.alert # "none"
            /\ ~isLoading' /\ ~isRecording' ]_vars

\* C11: on both transports a response with a status code other than 200
\* appends no turns and starts no playback, whatever its body contains.
C11_Non200Rejected ==
    [][ (ev'.op = "uploadDone" /\ ev'.net = "ok" /\ ev'.code # HttpOk)
            => (messages' = messages /\ plays' = plays) ]_vars

\* C12: when the permission request resolves to anything but granted a
\* notice is raised, and from then on no tap starts a capture and
\* isRecording is never set to true.
C12_DeniedNeverRecords ==
    [][ /\ (ev'.op = "permission" /\ perm' # "granted") => ev'.alert # "none"
        /\ perm = "denied" => (ev'.op # "tapStart" /\ (isRecording' => isRecording))
      ]_vars

\* C13: stopRecording without a recording handle raises no error, issues no
\* upload request, leaves the log unchanged and leaves the controller Idle.
C13_StopWithoutHandle ==
    [][ ev'.op = "tapStopNothing" =>
            /\ ~ev'.threw /\ ev'.alert = "none"
            /\ UNCHANGED <<tasks, messages, recordingRef, open>>
            /\ ~isRecording' /\ ~isLoading' ]_vars

C13_Witness ==
    /\ ev.op = "tapStopNothing"
    /\ recordingRef = NoRecording
    /\ ~isRecording /\ ~isLoading

\* C14: when setAudioModeAsync or Recording.createAsync rejects, an error
\* notice is raised and the failing start leaves isRecording, isLoading, the
\* recording handle and the log as they were, so an Idle controller
\* remains Idle.
C14_StartFailureFrame ==
    [][ /\ ev'.op = "tapStart" =>
              UNCHANGED <<isRecording, isLoading, recordingRef, messages>>
        /\ ev'.op = "startFailed" =>
              /\ ev'.alert = "Error"
              /\ UNCHANGED <<isRecording, isLoading, recordingRef, messages>>
              /\ (~isRecording /\ ~isLoading) => (~isRecording' /\ ~isLoading')
      ]_vars

C14_Witness ==
    /\ ev.op = "startFailed" /\ ev.alert = "Error"
    /\ ~isRecording /\ ~isLoading
    /\ recordingRef = NoRecording

\* C15: once stopAndUnloadAsync has settled for a held handle, whether it
\* succeeded or failed, recordingRef no longer holds that handle.
C15_HandleReleased ==
    [][ \A t \in TaskIds :
          (tasks[t].pc = "stopAndUnload" /\ tasks'[t].pc # "stopAndUnload")
            => recordingRef' # tasks[t].rec ]_vars

\* C16: in every reachable state the log is made of matched pairs: its
\* length is even, position 2k holds a user turn and 2k+1 an AI turn.
C16_MatchedPairs ==
    /\ Len(messages) % 2 = 0
    /\ \A i \in 1..Len(messages) :
          messages[i].sender = IF i % 2 = 1 THEN "user" ELSE "ai"

C16_Witness ==
    /\ Len(messages) = 4
    /\ ev.op = "uploadDone" /\ ev.status = "success"

C18_RecordingXorLoading == ~(isRecording /\ isLoading)

\* C19: toggleFeedback(index) on a user turn flips only that turn's
\* showFeedback: the length of the log, every other turn and that turn's
\* sender, text and feedback are unchanged, and applying it once more to
\* the same index gives back the original log.
C19_ToggleFlipsOne ==
    [][ ( /\ ev'.op = "toggleFeedback" /\ ~ev'.threw
          /\ messages[ev'.index + 1].sender = "user" ) =>
            LET i == ev'.index + 1 IN
            /\ Len(messages') = Len(messages)
            /\ \A j \in 1..Len(messages) : j # i => messages'[j] = messages[j]
            /\ messages'[i].sender = messages[i].sender
            /\ messages'[i].text = messages[i].text
            /\ messages'[i].feedback = messages[i].feedback
            /\ messages'[i].showFeedback = ~messages[i].showFeedback
            /\ ToggleUpdate(messages', ev'.index) = messages
      ]_vars

C19_Witness ==
    /\ ev.op = "toggleFeedback" /\ ~ev.threw /\ ev.index = 2
    /\ Len(messages) = 4
    /\ messages[3].sender = "user" /\ messages[3].showFeedback
    /\ ~messages[1].showFeedback

\* C20: on the screen that clears the log on a context switch, an exchange
\* is appended only by an upload that was requested with the scenario that
\* is active when its response arrives: the response of an upload already
\* in flight when the scenario was switched is never appended.
C20_NoStaleExchange ==
    [][ \A t \in TaskIds :
          ( /\ screen = "full"
            /\ tasks[t].pc = "upload" /\ tasks'[t].pc = "done"
            /\ Len(messages') > Len(messages) )
              => tasks[t].ctx = context ]_vars

\* C21: for each upload of the screen with live corrections, the value that
\* gates whether feedback is attached to the user turn is the value sent as
\* the liveFeedback parameter of that upload's request, also when the
\* switch was flipped while the upload was in flight.
C21_GateIsSentValue ==
    [][ \A t \in TaskIds :
          ( /\ screen = "full"
            /\ tasks[t].pc = "upload" /\ tasks'[t].pc = "done"
            /\ ev'.op = "uploadDone"
            /\ Len(messages') = Len(messages) + 2 )
              => ( Truthy(messages'[Len(messages') - 1].feedback)
                     <=> (tasks[t].param = "true" /\ Truthy(ev'.feedback)) )
      ]_vars

C21_Witness ==
    /\ screen = "full"
    /\ ev.op = "uploadDone" /\ Truthy(ev.feedback)
    /\ ~liveFeedback
    /\ Len(messages) = 2
    /\ Truthy(messages[1].feedback)

\* C22: whenever isRecording is true a recording handle is held.
C22_RecordingHoldsHandle == isRecording => recordingRef # NoRecording

====
